---- MODULE Spec2Model ----
(***************************************************************************)
(* ContractGuard: the Generation Client (agents/llm_client.py) and the     *)
(* Clause Analyzer (agents/cot_analyzer.py) as one state machine.          *)
(*                                                                         *)
(* One top-level call is in progress: analyze_clause on one clause,        *)
(* analyze_multiple_clauses on a list of clauses, or batch_generate on a   *)
(* list of prompts.  Every clause / prompt is one asyncio task.  The event *)
(* loop is cooperative: `running` names the task that holds the loop; a    *)
(* task gives it up only at an await that really suspends (the HTTP POST   *)
(* and tenacity's sleep between attempts).                                 *)
(*                                                                         *)
(* Two further specifications exercise parts on their own: ParseSpec the   *)
(* parsing half of generate_json on arbitrary generated text, and          *)
(* RetrieverSpec the Similarity Retriever (rag/contract_retriever.py):     *)
(* construction over a vector database that may be missing, search and     *)
(* compare.                                                                *)
(***************************************************************************)
EXTENDS Naturals, Integers, Sequences, FiniteSets, TLC

\* Longest list of clauses / prompts handed to a batch operation.
MaxClauses == 2

\* stop_after_attempt(3)
MaxAttempts == 3

\* Longest generated text, in atoms, that ParseSpec parses.
MaxTextLen == 6

(***************************************************************************)
(* Python values.                                                          *)
(***************************************************************************)

\* dict[key] = value
DictSet(d, key, value) ==
    [x \in (DOMAIN d) \cup {key} |-> IF x = key THEN value ELSE d[x]]

RECURSIVE join(_, _)
\* sep.join(parts)
join(sep, parts) ==
    IF Len(parts) = 0 THEN ""
    ELSE IF Len(parts) = 1 THEN parts[1]
    ELSE parts[1] \o sep \o join(sep, Tail(parts))

(***************************************************************************)
(* Exceptions: a class name and the text str(e) gives.                     *)
(***************************************************************************)
NoException == [type |-> "none", msg |-> ""]

\* The classes each exception class derives from (itself included).
ExceptionBases ==
    [ConnectError    |-> {"ConnectError", "TransportError", "HTTPError", "Exception"},
     ReadTimeout     |-> {"ReadTimeout", "TimeoutException", "TransportError",
                          "HTTPError", "Exception"},
     HTTPStatusError |-> {"HTTPStatusError", "HTTPError", "Exception"},
     KeyError        |-> {"KeyError", "LookupError", "Exception"},
     JSONDecodeError |-> {"JSONDecodeError", "ValueError", "Exception"},
     ValueError      |-> {"ValueError", "Exception"},
     RetryError      |-> {"RetryError", "Exception"}]

isinstance(e, cls) == cls \in ExceptionBases[e.type]

str(e) == e.msg

JSONDecodeError ==
    [type |-> "JSONDecodeError", msg |-> "Expecting value: line 1 column 1 (char 0)"]

\* What one attempt of generate can raise: the POST fails (network error,
\* per-request timeout), raise_for_status() rejects a non-2xx answer,
\* response.json() cannot decode the body, or the decoded body has no
\* ['message']['content'].
AttemptExceptions ==
    {[type |-> "ConnectError",    msg |-> "All connection attempts failed"],
     [type |-> "ReadTimeout",     msg |-> ""],
     [type |-> "HTTPStatusError", msg |-> "Server error '500 Internal Server Error'"],
     [type |-> "KeyError",        msg |-> "'message'"],
     JSONDecodeError}

\* tenacity raises RetryError(last_attempt) when it stops (reraise is off).
RetryError(last) ==
    [type |-> "RetryError",
     msg  |-> "RetryError[<Future state=finished raised " \o last.type \o ">]"]

(***************************************************************************)
(* Generated text: a sequence of atoms.  Fence is the three-backtick       *)
(* marker, Tag the word json, NL one whitespace character; every other     *)
(* atom is a JSON document or junk.                                        *)
(***************************************************************************)
Fence == "<fence>"
Tag == "json"
NL == "\n"

FullAnalysis ==
    [clause_type |-> "termination",
     clause_summary |-> "summary",
     step1_identification |->
        [key_obligations |-> <<"o">>, key_rights |-> <<"r">>, ambiguous_terms |-> <<>>],
     step2_legal_analysis |->
        [legal_issues |-> <<"l">>, compliance_status |-> "concerning",
         comparison_to_standard |-> "worse", red_flags |-> <<"f">>],
     step3_financial_impact |->
        [potential_costs |-> <<"c">>, worst_case_scenario |-> "w",
         estimated_risk_amount |-> "unlimited"],
     step4_business_implications |->
        [operational_impact |-> "i", flexibility_constraints |-> <<>>,
         exit_difficulty |-> "difficult"],
     step5_risk_scoring |->
        [risk_level |-> "high", risk_score |-> 8, justification |-> "j"],
     step6_recommendations |->
        [action |-> "modify", priority |-> "high", suggested_changes |-> <<"s">>,
         alternative_language |-> "a"],
     step7_negotiation |->
        [strategy |-> "s", leverage_points |-> <<>>, realistic_compromise |-> "c",
         dealbreaker |-> FALSE],
     overall_verdict |-> "verdict"]

\* A flat object shaped like the few-shot examples of the system prompt; it
\* also carries its own analyzed_clause and rag_context_used.
FlatAnalysis ==
    [clause_type |-> "termination", risk_level |-> "critical", risk_score |-> 9,
     legal_issues |-> <<"l">>, action |-> "reject", suggested_changes |-> <<"s">>,
     analyzed_clause |-> "stale", rag_context_used |-> TRUE]

NoParsed == [type |-> "none", value |-> <<>>]

JsonAtoms == {"{full}", "{flat}", "[]"}

\* The Python value a JSON document parses to, tagged with its type.
json_value(atom) ==
    CASE atom = "{full}" -> [type |-> "dict", value |-> FullAnalysis]
      [] atom = "{flat}" -> [type |-> "dict", value |-> FlatAnalysis]
      [] atom = "[]"     -> [type |-> "list", value |-> <<>>]

RECURSIVE lstrip(_)
lstrip(s) == IF Len(s) > 0 /\ s[1] = NL THEN lstrip(Tail(s)) ELSE s

RECURSIVE rstrip(_)
rstrip(s) ==
    IF Len(s) > 0 /\ s[Len(s)] = NL THEN rstrip(SubSeq(s, 1, Len(s) - 1)) ELSE s

\* str.strip()
strip(s) == lstrip(rstrip(s))

\* str.startswith / str.endswith
startswith(s, prefix) ==
    Len(s) >= Len(prefix) /\ SubSeq(s, 1, Len(prefix)) = prefix

endswith(s, suffix) ==
    Len(s) >= Len(suffix) /\ SubSeq(s, Len(s) - Len(suffix) + 1, Len(s)) = suffix

\* json.loads: one document, whitespace allowed around it; anything else is
\* a JSONDecodeError.
json_loads(s) ==
    LET t == strip(s)
    IN  IF Len(t) = 1 /\ t[1] \in JsonAtoms
        THEN [ok |-> TRUE, value |-> json_value(t[1])]
        ELSE [ok |-> FALSE, value |-> NoParsed]

\* Mutant of recovered: the trailing marker is removed only together with
\* a leading one.
recovered_paired(text) ==
    LET cleaned == strip(text)
        nohead == SubSeq(cleaned, 3, Len(cleaned))
        notail == IF endswith(nohead, <<Fence>>)
                  THEN SubSeq(nohead, 1, Len(nohead) - 1) ELSE nohead
    IN  IF startswith(cleaned, <<Fence, Tag>>) THEN strip(notail) ELSE cleaned

\* Mutant of recovered: the leading marker is cut without its json tag
\* (cleaned[3:] instead of cleaned[7:]).
recovered_fence_only(text) ==
    LET cleaned == strip(text)
        nohead == IF startswith(cleaned, <<Fence, Tag>>)
                  THEN SubSeq(cleaned, 2, Len(cleaned)) ELSE cleaned
        notail == IF endswith(nohead, <<Fence>>)
                  THEN SubSeq(nohead, 1, Len(nohead) - 1) ELSE nohead
    IN  strip(notail)

\* The recovery pass of generate_json (lines 115-120): the text handed to
\* the second json.loads.
recovered(text) ==
    LET cleaned == strip(text)
        nohead == IF startswith(cleaned, <<Fence, Tag>>)
                  THEN SubSeq(cleaned, 3, Len(cleaned)) ELSE cleaned
        notail == IF endswith(nohead, <<Fence>>)
                  THEN SubSeq(nohead, 1, Len(nohead) - 1) ELSE nohead
    IN  strip(notail)

\* Mutant of parse_response: no recovery pass, the first failure stands.
parse_response_no_recovery(text) == json_loads(text)

\* generate_json after generate returned the text: parse, and on failure
\* strip the fence markers once and parse again.
parse_response(text) ==
    LET direct == json_loads(text)
    IN  IF direct.ok THEN direct ELSE json_loads(recovered(text))

\* json.JSONDecodeError(msg, doc, pos) raised by json.loads(doc) while the
\* exception `context` was being handled (Python chains it as __context__).
JSONDecodeErrorIn(doc, context) ==
    [type |-> "JSONDecodeError", msg |-> "Expecting value: line 1 column 1 (char 0)",
     doc |-> doc, context |-> context]

\* What generate_json ends with for the text generate returned: the parsed
\* value, or the JSONDecodeError of the second json.loads, raised while the
\* first one was being handled.
generate_json_outcome(text) ==
    LET p == parse_response(text)
    IN  IF p.ok
        THEN [status |-> "returned", value |-> p.value, exc |-> NoException]
        ELSE [status |-> "raised", value |-> NoParsed,
              exc |-> JSONDecodeErrorIn(recovered(text),
                                        JSONDecodeErrorIn(text, NoException))]

\* The texts the model endpoint may answer with: the full object, a flat
\* object inside a json-tagged fence, a list, and text that is no JSON.
Texts ==
    {<<"{full}">>,
     <<Fence, Tag, NL, "{flat}", NL, Fence>>,
     <<"[]">>,
     <<"junk">>}

(***************************************************************************)
(* Inputs.                                                                 *)
(***************************************************************************)
\* clause dicts; the second has no "type" key
ClauseInputs == {[text |-> "c1", type |-> "termination"], [text |-> "c2"]}

\* clause.get("type", "unknown")
clause_type_of(clause) ==
    IF "type" \in DOMAIN clause THEN clause.type ELSE "unknown"

Prompts == {"p1", "p2"}

\* The lists of 1 to n elements that alternate between two different
\* elements of S.
Alternations(S, n) ==
    UNION {{[i \in 1..m |-> IF i % 2 = 1 THEN x ELSE y] : m \in 1..n, y \in S \ {x}} :
           x \in S}

Ops == {"analyze_clause", "analyze_multiple_clauses", "batch_generate"}

\* What retriever.search_similar_clauses does for the analyzer: raises, or
\* returns a list of candidates (possibly empty).
SearchOutcomes ==
    {[raised |-> TRUE,  results |-> <<>>,
      exc |-> [type |-> "ValueError", msg |-> "index query failed"]],
     [raised |-> FALSE, results |-> <<>>, exc |-> NoException],
     [raised |-> FALSE, exc |-> NoException,
      results |-> <<[text |-> "std1", fairness_score |-> 8],
                    [text |-> "std2", fairness_score |-> 3]>>]}

VARIABLES
    op,                   \* the top-level operation called
    clauses,              \* analyze*: the input clauses
    prompts,              \* batch_generate: the input prompts
    use_rag,              \* the use_rag argument
    retriever,            \* self.retriever: "None" or "ContractRetriever"
    pc,                   \* pc[k]: where task k is
    running,              \* the task holding the event loop, 0 when none
    attempt_number,       \* tenacity's attempt number of task k's generate call
    similar_clauses_text, \* the local of analyze_clause, until the prompt is built
    prompt,               \* the prompt argument of task k's generate call in progress
    parsed,               \* what generate_json returned to task k
    result,               \* what task k returned
    exc,                  \* the exception task k raised
    caught,               \* the exception that reached analyze_clause's except clauses
    failure,              \* why task k's analysis failed, "none" when it did not
    ret,                  \* the outcome of the top-level call
    last_done,            \* the task whose end completed the top-level call
    attempts,             \* the outcomes of the POSTs task k has issued, in order
    answered,             \* batch_generate: the prompt of the request that was answered
                          \* and the content of the answer, for each task that returned
    retriever_calls,      \* number of retriever searches task k has made
    search_kwargs,        \* the keyword arguments of task k's retriever searches, in order
    attempt_exc,          \* what task k's last attempt raised, while tenacity sleeps on it
    peak_in_flight,       \* the largest number of requests in flight together so far
    search_raised,        \* task k's retriever search raised an exception
    delay                 \* what tenacity sleeps before task k's next attempt

VARIABLES
    response,             \* ParseSpec: the text generate returned to generate_json
    gj_ret,               \* ParseSpec: the outcome of generate_json
    vector_db,            \* RetrieverSpec: the vector database directory on disk
    search_args,          \* RetrieverSpec: the arguments of the last search
    source_nodes,         \* RetrieverSpec: what the index reported to the last query
    r_ret                 \* RetrieverSpec: the outcome of the last retriever operation

\* the state of the parts the analysis does not run
components == <<response, gj_ret, vector_db, search_args, source_nodes, r_ret>>

vars == <<op, clauses, prompts, use_rag, retriever, pc, running, attempt_number,
          similar_clauses_text, prompt, parsed, result, exc, caught,
          failure, ret, last_done, attempts, answered, retriever_calls, search_kwargs, attempt_exc,
          peak_in_flight, search_raised, delay, components>>

\* the arguments of the call and the analyzer's configuration
inputs == <<op, clauses, prompts, use_rag, retriever>>

N == IF op = "batch_generate" THEN Len(prompts) ELSE Len(clauses)
Tasks == 1..N

NoText == <<>>
NoCall == [status |-> "idle", value |-> <<>>, exc |-> NoException]
NotCalled == [op |-> "", status |-> "idle", value |-> <<>>, exc |-> NoException]
NoArgs == [query |-> "", top_k |-> 0]
NoDatabase == [exists |-> FALSE, nodes |-> {}]
NoResult == [clause_type |-> "none"]
NoAnswer == [prompt |-> "", text |-> NoText]
Pending == [status |-> "pending", value |-> <<>>, exc |-> NoException]

Terminal == {"done", "failed", "returned", "raised"}

Init ==
    /\ op \in Ops
    /\ clauses \in (IF op = "analyze_clause" THEN Alternations(ClauseInputs, 1)
                    ELSE IF op = "analyze_multiple_clauses"
                    THEN Alternations(ClauseInputs, MaxClauses) ELSE {<<>>})
    /\ prompts \in (IF op = "batch_generate" THEN Alternations(Prompts, MaxClauses)
                    ELSE {<<>>})
    /\ use_rag \in (IF op = "batch_generate" THEN {FALSE} ELSE BOOLEAN)
    /\ retriever \in (IF op = "batch_generate" THEN {"None"}
                      ELSE {"None", "ContractRetriever"})
    /\ pc = [k \in Tasks |-> "pending"]
    /\ running = 0
    /\ attempt_number = [k \in Tasks |-> 0]
    /\ similar_clauses_text = [k \in Tasks |-> ""]
    /\ prompt = [k \in Tasks |-> ""]
    /\ parsed = [k \in Tasks |-> NoParsed]
    /\ result = [k \in Tasks |-> NoResult]
    /\ exc = [k \in Tasks |-> NoException]
    /\ caught = [k \in Tasks |-> NoException]
    /\ failure = [k \in Tasks |-> "none"]
    /\ ret = Pending
    /\ last_done = 0
    /\ attempts = [k \in Tasks |-> <<>>]
    /\ answered = [k \in Tasks |-> NoAnswer]
    /\ retriever_calls = [k \in Tasks |-> 0]
    /\ search_kwargs = [k \in Tasks |-> <<>>]
    /\ attempt_exc = [k \in Tasks |-> NoException]
    /\ peak_in_flight = 0
    /\ search_raised = [k \in Tasks |-> FALSE]
    /\ delay = [k \in Tasks |-> 0]
    /\ response = NoText
    /\ gj_ret = NoCall
    /\ vector_db = NoDatabase
    /\ search_args = NoArgs
    /\ source_nodes = <<>>
    /\ r_ret = NotCalled

(***************************************************************************)
(* Clause Analyzer, pure parts.                                            *)
(***************************************************************************)

\* Mutant of _error_response: the verdict leaves the message out.
_error_response_fixed_verdict(clause_text, error_msg) ==
    [clause_type |-> "error",
     analyzed_clause |-> clause_text,
     error |-> error_msg,
     step5_risk_scoring |->
        [risk_level |-> "unknown", risk_score |-> 0, justification |-> "Analysis failed"],
     step6_recommendations |->
        [action |-> "manual_review", priority |-> "high",
         suggested_changes |-> <<"Review this clause manually - automated analysis failed">>,
         alternative_language |-> ""],
     overall_verdict |-> "Automated analysis failed. Manual review required."]

\* CoTAnalyzer._error_response
_error_response(clause_text, error_msg) ==
    [clause_type |-> "error",
     analyzed_clause |-> clause_text,
     error |-> error_msg,
     step5_risk_scoring |->
        [risk_level |-> "unknown", risk_score |-> 0, justification |-> "Analysis failed"],
     step6_recommendations |->
        [action |-> "manual_review", priority |-> "high",
         suggested_changes |-> <<"Review this clause manually - automated analysis failed">>,
         alternative_language |-> ""],
     overall_verdict |->
        "Automated analysis failed: " \o error_msg \o ". Manual review required."]

\* Mutant of analyze_clause_except: the catch-all clause is missing, only
\* json.JSONDecodeError is handled.
analyze_clause_except_no_catch_all(clause_text, e) ==
    IF isinstance(e, "JSONDecodeError")
    THEN [state |-> "failed", exc |-> NoException,
          value |-> [clause_type |-> "error", analyzed_clause |-> clause_text,
                     error |-> "JSON parsing failed"]]
    ELSE [state |-> "raised", exc |-> e, value |-> NoResult]

\* The except clauses that close analyze_clause's try block: what the task
\* ends with when exception e reaches them.
analyze_clause_except(clause_text, e) ==
    IF isinstance(e, "JSONDecodeError")
    THEN [state |-> "failed", exc |-> NoException,
          value |-> _error_response(clause_text, "JSON parsing failed")]
    ELSE IF isinstance(e, "Exception")
    THEN [state |-> "failed", exc |-> NoException,
          value |-> _error_response(clause_text, str(e))]
    ELSE [state |-> "raised", exc |-> e, value |-> NoResult]

\* Mutant of stamp: values the generated object already carries are kept
\* (setdefault instead of assignment).
stamp_keep_existing(response_dict, clause_text) ==
    LET a == IF "analyzed_clause" \in DOMAIN response_dict THEN response_dict
             ELSE DictSet(response_dict, "analyzed_clause", clause_text)
    IN  IF "rag_context_used" \in DOMAIN a THEN a
        ELSE DictSet(a, "rag_context_used", use_rag /\ retriever # "None")

\* The stamping of a dict response (lines 84-86).
stamp(response_dict, clause_text) ==
    DictSet(DictSet(response_dict, "analyzed_clause", clause_text),
            "rag_context_used", use_rag /\ retriever # "None")

\* The ValueError raised for a response that is no dict.
NotADict(value) ==
    [type |-> "ValueError",
     msg  |-> "LLM response is not a valid JSON object. Expected dict, got <class '"
              \o value.type \o "'>"]

\* COT_ANALYSIS_PROMPT.format(...): the template with its three fields
\* filled in.
COT_ANALYSIS_PROMPT_format(clause_text, clause_type, similar_clauses) ==
    "**CLAUSE TO ANALYZE:**\n" \o clause_text
    \o "\n\n**CLAUSE TYPE:** " \o clause_type
    \o "\n\n**CONTEXT FROM SIMILAR STANDARD CLAUSES:**\n" \o similar_clauses

\* The numbered reference snippets rendered from the search_raised candidates.
render_similar(similar) ==
    join("\n\n",
         [i \in 1..Len(similar) |->
            "**Standard Clause " \o ToString(i) \o "** (Fairness: "
            \o ToString(similar[i].fairness_score) \o "/10):\n" \o similar[i].text])

\* the number of candidates analyze_clause asks the retriever for
analyzer_top_k == 3

\* Mutant of retrieval_wanted: the retriever is searched whenever one is
\* configured, whatever use_rag says.
retrieval_wanted_ignoring_use_rag == retriever # "None"

\* `if use_rag and self.retriever:` -- whether analyze_clause searches
retrieval_wanted == use_rag /\ retriever # "None"

\* Mutant of retriever_call_awaited: the search is awaited, so the task
\* gives up the event loop while the retriever works.
retriever_call_awaited_async == TRUE

\* Whether analyze_clause awaits the retriever: search_similar_clauses is a
\* plain method called without await, so the event loop stays with the task
\* for the whole search.
retriever_call_awaited == FALSE

\* the keyword arguments of analyze_clause's search_similar_clauses call
search_call(clause) ==
    [query_clause |-> clause.text, clause_type |-> clause_type_of(clause),
     top_k |-> analyzer_top_k]

\* Mutant of context_assembly: the search is not guarded, its exception
\* leaves analyze_clause.
context_assembly_unguarded(o) ==
    IF o.raised
    THEN [state |-> "raised", exc |-> o.exc, text |-> ""]
    ELSE [state |-> "building_prompt", exc |-> NoException,
          text |-> IF Len(o.results) > 0 THEN render_similar(o.results)
                   ELSE "No similar standard clauses found in database."]

\* The context assembly of analyze_clause around a search that ended as o
\* (lines 46-62): the text for the prompt; an exception of the search is
\* caught on the spot.
context_assembly(o) ==
    [state |-> "building_prompt", exc |-> NoException,
     text |-> IF o.raised /\ isinstance(o.exc, "Exception")
              THEN "RAG retrieval unavailable."
              ELSE IF Len(o.results) > 0 THEN render_similar(o.results)
              ELSE "No similar standard clauses found in database."]

(***************************************************************************)
(* Generation Client, pure parts.                                          *)
(***************************************************************************)

\* Mutant of stop_after_attempt: no stop rule, tenacity retries for ever.
stop_after_attempt_never(n) == FALSE

\* Mutant of stop_after_attempt: one attempt more.
stop_after_attempt_off_by_one(n) == n >= MaxAttempts + 1

\* tenacity's stop rule: stop_after_attempt(3)
stop_after_attempt(n) == n >= MaxAttempts

\* wait_exponential(multiplier=1, min=4, max=10)
wait_multiplier == 1
wait_min == 4
wait_max == 10

Max(a, b) == IF a >= b THEN a ELSE b
Min(a, b) == IF a <= b THEN a ELSE b

\* Mutant of wait_exponential: the lower end of the window is not applied.
wait_exponential_no_min(n) == Min(wait_multiplier * 2 ^ (n - 1), wait_max)

\* tenacity's wait_exponential after attempt number n failed:
\* max(max(0, min), min(multiplier * 2 ** (n - 1), max))
wait_exponential(n) ==
    Max(Max(0, wait_min), Min(wait_multiplier * 2 ^ (n - 1), wait_max))

\* Mutant of retry_if_exception: a per-request timeout is not retried.
retry_if_exception_not_timeout(e) ==
    isinstance(e, "Exception") /\ ~isinstance(e, "TimeoutException")

\* Mutant of retry_if_exception: only transport and status failures are
\* retried (retry_if_exception_type(httpx.HTTPError)).
retry_if_exception_http_only(e) == isinstance(e, "HTTPError")

\* tenacity's default retry rule: retry_if_exception_type(Exception)
retry_if_exception(e) == isinstance(e, "Exception")

\* Mutant of generate_raises: tenacity configured with reraise=True.
generate_raises_reraise(e) == e

\* What generate raises when tenacity stops after an attempt raised e: an
\* exception it would not retry goes through unchanged, otherwise (reraise
\* is off) RetryError wraps the last attempt.
generate_raises(e) == IF retry_if_exception(e) THEN RetryError(e) ELSE e

(***************************************************************************)
(* asyncio.gather and the end of a task.                                   *)
(***************************************************************************)

\* Mutant of gather_results: results in completion order as far as the last
\* task goes (its result is appended when it ends).
gather_results_last_completed_last(values, k) ==
    [i \in Tasks |-> IF i < k THEN values[i]
                     ELSE IF i < N THEN values[i + 1] ELSE values[k]]

\* The list gather hands back once the last task, k, has ended: the
\* children's results in the order the awaitables were passed.
gather_results(values, k) == [i \in Tasks |-> values[i]]

\* Mutant of ReturnAfter: gather(..., return_exceptions=True), which waits
\* for every task and never raises.
ReturnAfter_return_exceptions(k, e, values) ==
    IF ret.status # "pending" THEN ret
    ELSE IF op = "analyze_clause"
    THEN [status |-> "returned", value |-> values[k], exc |-> NoException]
    ELSE IF \A j \in Tasks \ {k} : pc[j] \in Terminal
    THEN [status |-> "returned", value |-> [i \in Tasks |-> values[i]],
          exc |-> NoException]
    ELSE ret

\* The outcome of the top-level call after task k ended, raising e (or
\* NoException); `values` are the tasks' return values after this step.
ReturnAfter(k, e, values) ==
    IF ret.status # "pending" THEN ret
    ELSE IF e # NoException
    THEN [status |-> "raised", value |-> <<>>, exc |-> e]
    ELSE IF op = "analyze_clause"
    THEN [status |-> "returned", value |-> values[k], exc |-> NoException]
    ELSE IF \A j \in Tasks \ {k} : pc[j] \in Terminal
    THEN [status |-> "returned", value |-> gather_results(values, k),
          exc |-> NoException]
    ELSE ret

\* Task k ends: out.state is its final position, out.value what it returns,
\* out.exc what it raises.  The locals of the finished call are gone.
Finish(k, out) ==
    /\ pc' = [pc EXCEPT ![k] = out.state]
    /\ result' = [result EXCEPT ![k] = out.value]
    /\ exc' = [exc EXCEPT ![k] = out.exc]
    /\ running' = 0
    /\ ret' = ReturnAfter(k, out.exc, result')
    /\ last_done' = IF ret.status = "pending" /\ ret'.status = "returned"
                    THEN k ELSE last_done
    /\ attempt_number' = [attempt_number EXCEPT ![k] = 0]
    /\ similar_clauses_text' = [similar_clauses_text EXCEPT ![k] = ""]
    /\ prompt' = [prompt EXCEPT ![k] = ""]
    /\ parsed' = [parsed EXCEPT ![k] = NoParsed]

\* Exception e, raised for reason `why`, reaches the except clauses of task
\* k's analyze_clause.
Except(k, why, e) ==
    /\ caught' = [caught EXCEPT ![k] = e]
    /\ failure' = [failure EXCEPT ![k] = why]
    /\ Finish(k, analyze_clause_except(clauses[k].text, e))

\* client.post of one attempt: the request is on the wire.
Post(k) ==
    /\ attempts' = [attempts EXCEPT ![k] = Append(@, "in_flight")]
    /\ peak_in_flight' =
         Max(peak_in_flight,
             Cardinality({j \in Tasks : j = k \/ pc[j] = "in_flight"}))

\* The attempt in flight ends with `outcome`.
Settle(k, outcome) ==
    attempts' = [attempts EXCEPT ![k] = [@ EXCEPT ![Len(@)] = outcome]]

\* Mutant of can_start: the tasks run under a semaphore of one, a task
\* starts when the tasks before it have ended.
can_start_one_at_a_time(k) == \A j \in Tasks : j < k => pc[j] \in Terminal

\* Whether the event loop can give task k its first step: gather has made
\* every coroutine a task at once and the loop runs the ready tasks in the
\* order they were made, so task k waits only for the first steps of the
\* tasks before it, never for their requests.
can_start(k) == \A j \in Tasks : j < k => pc[j] # "pending"

\* The event loop handles the answers of requests only when no task is
\* ready to run: every task that can start has started.
AllStarted == \A j \in Tasks : pc[j] = "pending" => ~can_start(j)

(***************************************************************************)
(* Actions.                                                                *)
(***************************************************************************)

\* The event loop gives task k its first step.  gather schedules the tasks
\* in input order.  A batch_generate task is a generate call: it builds the
\* payload and suspends in the POST of attempt 1.
StartTask(k) ==
    /\ running = 0
    /\ pc[k] = "pending"
    /\ can_start(k)
    /\ IF op = "batch_generate"
       THEN /\ pc' = [pc EXCEPT ![k] = "in_flight"]
            /\ prompt' = [prompt EXCEPT ![k] = prompts[k]]
            /\ attempt_number' = [attempt_number EXCEPT ![k] = 1]
            /\ Post(k)
            /\ UNCHANGED running
       ELSE /\ pc' = [pc EXCEPT ![k] = "retrieving"]
            /\ running' = IF retriever_call_awaited THEN 0 ELSE k
            /\ UNCHANGED <<prompt, attempt_number, attempts, peak_in_flight>>
    /\ UNCHANGED <<inputs, components, similar_clauses_text, parsed, result, exc,
                   caught, failure, ret, last_done, answered, retriever_calls, search_kwargs, attempt_exc,
                   search_raised, delay>>

\* analyze_clause, step 1: the retriever is searched (a synchronous call)
\* and the context text is assembled.
RetrieveContext(k) ==
    /\ running = IF retriever_call_awaited THEN 0 ELSE k
    /\ pc[k] = "retrieving"
    /\ IF retrieval_wanted
       THEN \E o \in SearchOutcomes :
              LET c == context_assembly(o)
              IN  /\ retriever_calls' = [retriever_calls EXCEPT ![k] = @ + 1]
                  /\ search_kwargs' = [search_kwargs EXCEPT ![k] =
                         Append(@, search_call(clauses[k]))]
                  /\ search_raised' = [search_raised EXCEPT ![k] = o.raised]
                  /\ IF c.state = "building_prompt"
                     THEN /\ similar_clauses_text' =
                                [similar_clauses_text EXCEPT ![k] = c.text]
                          /\ pc' = [pc EXCEPT ![k] = "building_prompt"]
                          /\ running' = k
                          /\ UNCHANGED <<attempt_number, prompt, parsed,
                                         result, exc, ret, last_done>>
                     ELSE Finish(k, [state |-> "raised", value |-> NoResult,
                                     exc |-> c.exc])
       ELSE /\ similar_clauses_text' =
                    [similar_clauses_text EXCEPT ![k] = "RAG comparison disabled."]
            /\ pc' = [pc EXCEPT ![k] = "building_prompt"]
            /\ running' = k
            /\ UNCHANGED <<retriever_calls, search_kwargs, search_raised, attempt_number,
                           prompt, parsed, result, exc, ret, last_done>>
    /\ UNCHANGED <<inputs, components, caught, failure, attempts, answered, delay,
                   attempt_exc, peak_in_flight>>

\* analyze_clause, steps 2 and 3: the prompt is formatted, generate_json
\* calls generate, which suspends in the POST of attempt 1.  The context
\* text is not read again once it is in the prompt.
BuildPrompt(k) ==
    /\ running = k
    /\ pc[k] = "building_prompt"
    /\ prompt' = [prompt EXCEPT ![k] =
                    COT_ANALYSIS_PROMPT_format(clauses[k].text, clause_type_of(clauses[k]),
                                               similar_clauses_text[k])]
    /\ similar_clauses_text' = [similar_clauses_text EXCEPT ![k] = ""]
    /\ pc' = [pc EXCEPT ![k] = "in_flight"]
    /\ attempt_number' = [attempt_number EXCEPT ![k] = 1]
    /\ Post(k)
    /\ running' = 0
    /\ UNCHANGED <<inputs, components, parsed, result, exc,
                   caught, failure, ret, last_done, answered, retriever_calls, search_kwargs, attempt_exc,
                   search_raised, delay>>

\* The POST of task k's current attempt is answered with a body that
\* carries the message content `text`: generate returns it.  In
\* batch_generate the task ends with it; in analyze_clause generate_json
\* parses it and either raises or hands the parsed value on.
AttemptSucceeds(k) ==
    /\ running = 0
    /\ AllStarted
    /\ pc[k] = "in_flight"
    /\ Settle(k, "ok")
    /\ \E text \in Texts :
         IF op = "batch_generate"
         THEN /\ answered' = [answered EXCEPT ![k] = [prompt |-> prompt[k], text |-> text]]
              /\ Finish(k, [state |-> "returned", value |-> text, exc |-> NoException])
              /\ UNCHANGED <<caught, failure>>
         ELSE LET p == parse_response(text)
              IN  IF p.ok
                  THEN /\ parsed' = [parsed EXCEPT ![k] = p.value]
                       /\ pc' = [pc EXCEPT ![k] = "validating"]
                       /\ running' = k
                       /\ attempt_number' = [attempt_number EXCEPT ![k] = 0]
                       /\ prompt' = [prompt EXCEPT ![k] = ""]
                       /\ UNCHANGED <<result, exc, caught, failure, ret, last_done,
                                      similar_clauses_text, answered>>
                  ELSE /\ Except(k, "malformed", JSONDecodeError)
                       /\ UNCHANGED answered
    /\ UNCHANGED <<inputs, components, retriever_calls, search_kwargs, attempt_exc,
                   peak_in_flight, search_raised, delay>>

\* Task k's current attempt raises e.  tenacity either sleeps before the
\* next attempt or stops and raises RetryError out of generate.
AttemptRaises(k, e) ==
    /\ running = 0
    /\ AllStarted
    /\ pc[k] = "in_flight"
    /\ Settle(k, "failed")
    /\   IF retry_if_exception(e) /\ ~stop_after_attempt(attempt_number[k])
         THEN /\ pc' = [pc EXCEPT ![k] = "sleeping"]
              /\ delay' = [delay EXCEPT ![k] = wait_exponential(attempt_number[k])]
              /\ attempt_exc' = [attempt_exc EXCEPT ![k] = e]
              /\ UNCHANGED <<running, result, exc, caught, failure, ret, last_done,
                             attempt_number, similar_clauses_text, prompt,
                             parsed>>
         ELSE IF op = "batch_generate"
         THEN /\ Finish(k, [state |-> "raised", value |-> NoResult,
                            exc |-> generate_raises(e)])
              /\ failure' = [failure EXCEPT ![k] = "generation"]
              /\ UNCHANGED <<caught, delay, attempt_exc>>
         ELSE /\ Except(k, "generation", generate_raises(e))
              /\ UNCHANGED <<delay, attempt_exc>>
    /\ UNCHANGED <<inputs, components, answered, retriever_calls, search_kwargs,
                   search_raised, peak_in_flight>>

\* Task k's current attempt fails, with any of the exceptions an attempt
\* can raise.
AttemptFails(k) == \E e \in AttemptExceptions : AttemptRaises(k, e)

\* tenacity's sleep is over: the next attempt's POST is issued.  The attempt
\* counter is capped one above the stop rule's limit, which it never reaches.
WakeUp(k) ==
    /\ running = 0
    /\ pc[k] = "sleeping"
    /\ attempt_number[k] <= MaxAttempts
    /\ delay' = [delay EXCEPT ![k] = 0]
    /\ attempt_exc' = [attempt_exc EXCEPT ![k] = NoException]
    /\ attempt_number' = [attempt_number EXCEPT ![k] = @ + 1]
    /\ Post(k)
    /\ pc' = [pc EXCEPT ![k] = "in_flight"]
    /\ UNCHANGED <<inputs, components, running, similar_clauses_text, prompt, parsed,
                   result, exc, caught, failure, ret, last_done, answered,
                   retriever_calls, search_kwargs, search_raised>>

\* analyze_clause, "validate and return": a dict is stamped and returned,
\* anything else raises ValueError into the except clauses.
Validate(k) ==
    /\ running = k
    /\ pc[k] = "validating"
    /\ IF parsed[k].type = "dict"
       THEN /\ Finish(k, [state |-> "done", exc |-> NoException,
                          value |-> stamp(parsed[k].value, clauses[k].text)])
            /\ UNCHANGED <<caught, failure>>
       ELSE Except(k, "validation", NotADict(parsed[k]))
    /\ UNCHANGED <<inputs, components, attempts, answered, retriever_calls, search_kwargs,
                   attempt_exc, peak_in_flight,
                   search_raised, delay>>

\* any step of task k
TaskStep(k) ==
    \/ StartTask(k)
    \/ RetrieveContext(k)
    \/ BuildPrompt(k)
    \/ AttemptSucceeds(k)
    \/ AttemptFails(k)
    \/ WakeUp(k)
    \/ Validate(k)

Next ==
    \/ \E k \in Tasks : StartTask(k)
    \/ \E k \in Tasks : RetrieveContext(k)
    \/ \E k \in Tasks : BuildPrompt(k)
    \/ \E k \in Tasks : AttemptSucceeds(k)
    \/ \E k \in Tasks : AttemptFails(k)
    \/ \E k \in Tasks : WakeUp(k)
    \/ \E k \in Tasks : Validate(k)

Spec == Init /\ [][Next]_vars

\* The event loop keeps running while a task is ready, a backoff sleep
\* ends, and every request is eventually answered or fails (the client's
\* per-request timeout): some enabled step is eventually taken.
FairSpec == Spec /\ WF_vars(Next)

TypeOK ==
    /\ op \in Ops
    /\ running \in 0..N
    /\ \A k \in Tasks :
         /\ pc[k] \in {"pending", "retrieving", "building_prompt", "in_flight",
                       "sleeping", "validating"} \cup Terminal
         /\ attempt_number[k] \in 0..MaxAttempts
    /\ ret.status \in {"pending", "returned", "raised"}

(***************************************************************************)
(* ParseSpec: generate_json from the point where generate has returned     *)
(* its text, for every text of at most MaxTextLen atoms.                   *)
(***************************************************************************)
TextAtoms == {Fence, Tag, NL, "{full}", "[]", "junk"}

GeneratedTexts == UNION {[1..m -> TextAtoms] : m \in 0..MaxTextLen}

\* No analysis is in progress.
NoAnalysis ==
    /\ op = "analyze_clause"
    /\ clauses = <<>>
    /\ prompts = <<>>
    /\ use_rag = FALSE
    /\ pc = <<>>
    /\ running = 0
    /\ attempt_number = <<>>
    /\ similar_clauses_text = <<>>
    /\ prompt = <<>>
    /\ parsed = <<>>
    /\ result = <<>>
    /\ exc = <<>>
    /\ caught = <<>>
    /\ failure = <<>>
    /\ ret = Pending
    /\ last_done = 0
    /\ attempts = <<>>
    /\ answered = <<>>
    /\ retriever_calls = <<>>
    /\ search_kwargs = <<>>
    /\ attempt_exc = <<>>
    /\ peak_in_flight = 0
    /\ search_raised = <<>>
    /\ delay = <<>>

ParseInit ==
    /\ response \in GeneratedTexts
    /\ gj_ret = [status |-> "pending", value |-> NoParsed, exc |-> NoException]
    /\ NoAnalysis
    /\ retriever = "None"
    /\ vector_db = NoDatabase
    /\ search_args = NoArgs
    /\ source_nodes = <<>>
    /\ r_ret = NotCalled

analysis == <<op, clauses, prompts, use_rag, pc, running, attempt_number, similar_clauses_text, prompt,
              parsed, result, exc, caught, failure, ret, last_done, attempts,
              answered, retriever_calls, search_kwargs, attempt_exc, peak_in_flight,
              search_raised, delay>>

\* json.loads(response) succeeds: generate_json returns the value.
ParseDirect ==
    /\ gj_ret.status = "pending"
    /\ json_loads(response).ok
    /\ gj_ret' = generate_json_outcome(response)
    /\ UNCHANGED <<analysis, retriever, response, vector_db, search_args, source_nodes,
                   r_ret>>

\* json.loads(response) raises: the except branch strips the text and parses
\* again, returning the value or letting the second JSONDecodeError out.
ParseRecover ==
    /\ gj_ret.status = "pending"
    /\ ~json_loads(response).ok
    /\ gj_ret' = generate_json_outcome(response)
    /\ UNCHANGED <<analysis, retriever, response, vector_db, search_args, source_nodes,
                   r_ret>>

ParseNext ==
    \/ ParseDirect
    \/ ParseRecover

ParseSpec == ParseInit /\ [][ParseNext]_vars

(***************************************************************************)
(* RetrieverSpec: the Similarity Retriever.  The vector database is either *)
(* missing on disk or holds some of the nodes below; an optional value     *)
(* (None or x) is the sequence <<>> or <<x>>; a similarity score is kept   *)
(* in hundredths.                                                          *)
(***************************************************************************)
None == <<>>

\* The nodes the indexer may have stored, with the similarity the index
\* reports for them; two tie on similarity, three carry no fairness_score.
IndexNodes ==
    {[text |-> "n1", score |-> 92,
      metadata |-> [contract_type |-> "NDA", clause_type |-> "termination",
                    fairness_score |-> 6]],
     [text |-> "n2", score |-> 92,
      metadata |-> [contract_type |-> "NDA", clause_type |-> "confidentiality"]],
     [text |-> "n3", score |-> 80,
      metadata |-> [contract_type |-> "Service Agreement", clause_type |-> "payment",
                    fairness_score |-> 9]],
     [text |-> "n4", score |-> 75,
      metadata |-> [contract_type |-> "Service Agreement", clause_type |-> "termination"]],
     [text |-> "n5", score |-> 60,
      metadata |-> [contract_type |-> "Employment", clause_type |-> "termination",
                    fairness_score |-> 8]],
     [text |-> "n6", score |-> 41,
      metadata |-> [clause_type |-> "liability"]]}

\* dict.get(key): None when the key is missing
dict_get(d, key) == IF key \in DOMAIN d THEN <<d[key]>> ELSE None

\* str() of an optional value inside an f-string
fstr(v) == IF v = None THEN "None" ELSE v[1]
fint(v) == IF v = None THEN "None" ELSE ToString(v[1])

\* f"{score:.4f}" of a score kept in hundredths
format_4f(score) ==
    ToString(score \div 100) \o "." \o ToString((score \div 10) % 10)
    \o ToString(score % 10) \o "00"

RECURSIVE Rankings(_)
\* The orders in which the index may report the nodes S: by descending
\* similarity, ties in either order.
Rankings(S) ==
    IF S = {} THEN {<<>>}
    ELSE UNION {{<<x>> \o r : r \in Rankings(S \ {x})} :
                x \in {n \in S : \A m \in S : n.score >= m.score}}

\* query_engine.query with similarity_top_k = top_k: the source nodes the
\* index may report, at most top_k of them, fewer when it holds fewer.
index_query(nodes, top_k) ==
    {SubSeq(r, 1, Min(top_k, Len(r))) : r \in Rankings(nodes)}

\* The query text of search_similar_clauses (line 56); clause_type is
\* optional.
build_query(query_clause, clause_type) ==
    IF clause_type # None /\ clause_type[1] # ""
    THEN "Clause Type: " \o clause_type[1] \o "\n" \o query_clause
    ELSE query_clause

\* Mutant of format_results: the candidates come out in the reverse of the
\* order reported.
format_results_reversed(nodes) ==
    [i \in 1..Len(nodes) |->
        LET node == nodes[Len(nodes) + 1 - i]
        IN  [text |-> node.text, score |-> node.score, metadata |-> node.metadata,
             contract_type |-> dict_get(node.metadata, "contract_type"),
             clause_type |-> dict_get(node.metadata, "clause_type"),
             fairness_score |-> dict_get(node.metadata, "fairness_score")]]

\* The result list search_similar_clauses builds from the source nodes
\* (lines 68-77).
format_results(nodes) ==
    [i \in 1..Len(nodes) |->
        LET node == nodes[i]
        IN  [text |-> node.text, score |-> node.score, metadata |-> node.metadata,
             contract_type |-> dict_get(node.metadata, "contract_type"),
             clause_type |-> dict_get(node.metadata, "clause_type"),
             fairness_score |-> dict_get(node.metadata, "fairness_score")]]

RECURSIVE sum(_)
\* sum(list)
sum(l) == IF Len(l) = 0 THEN 0 ELSE l[1] + sum(Tail(l))

RECURSIVE GCD(_, _)
GCD(a, b) == IF b = 0 THEN a ELSE GCD(b, a % b)

\* The number n / d (d > 0), in lowest terms.
Fraction(n, d) == [num |-> n \div GCD(n, d), den |-> d \div GCD(n, d)]

\* [s['fairness_score'] for s in similar if s['fairness_score'] is not None]
fairness_scores(similar) ==
    LET present == SelectSeq(similar, LAMBDA c : c.fairness_score # None)
    IN  [i \in 1..Len(present) |-> present[i].fairness_score[1]]

\* Mutant of avg_fairness: a candidate without a rating counts as zero.
avg_fairness_absent_as_zero(similar) ==
    IF fairness_scores(similar) # <<>>
    THEN Fraction(sum(fairness_scores(similar)), Len(similar))
    ELSE Fraction(5, 1)

\* avg_fairness of compare_clause (lines 96-97); 5.0 when no candidate has
\* a rating.
avg_fairness(similar) ==
    IF fairness_scores(similar) # <<>>
    THEN Fraction(sum(fairness_scores(similar)), Len(fairness_scores(similar)))
    ELSE Fraction(5, 1)

\* ContractRetriever._generate_comparison_summary
_generate_comparison_summary(similar_clauses) ==
    IF similar_clauses = <<>> THEN "No similar clauses found for comparison."
    ELSE LET best_match == similar_clauses[1]
         IN  "Found " \o ToString(Len(similar_clauses))
             \o " similar clauses in the standard contracts.\n\nBest Match:\n"
             \o "-   Contract Type: " \o fstr(best_match.contract_type) \o "\n"
             \o "-   Clause Type: " \o fstr(best_match.clause_type) \o "\n"
             \o "-   Fairness Score: " \o fint(best_match.fairness_score) \o "/10\n"
             \o "-   Similarity Score: " \o format_4f(best_match.score) \o "\n\n"
             \o "This clause appears in standard " \o fstr(best_match.contract_type)
             \o " agreements."

\* Mutant of compare_clause_result: the best match is the candidate with
\* the highest fairness rating.
compare_clause_result_best_by_fairness(similar) ==
    IF similar = <<>>
    THEN [found_similar |-> FALSE,
          message |-> "No similar clauses found in the database."]
    ELSE [found_similar |-> TRUE,
          similar_clauses |-> similar,
          average_fairness_score |-> avg_fairness(similar),
          best_match |->
             similar[CHOOSE i \in 1..Len(similar) :
                        \A j \in 1..Len(similar) :
                            sum(fairness_scores(<<similar[i]>>))
                                >= sum(fairness_scores(<<similar[j]>>))],
          comparison_summary |-> _generate_comparison_summary(similar)]

\* What compare_clause returns for the candidates its search returned
\* (lines 89-105).
compare_clause_result(similar) ==
    IF similar = <<>>
    THEN [found_similar |-> FALSE,
          message |-> "No similar clauses found in the database."]
    ELSE [found_similar |-> TRUE,
          similar_clauses |-> similar,
          average_fairness_score |-> avg_fairness(similar),
          best_match |-> similar[1],
          comparison_summary |-> _generate_comparison_summary(similar)]

\* Mutant of _load_index: no check that the database directory exists
\* (the client then creates an empty one).
_load_index_unchecked(db) ==
    [status |-> "returned", exc |-> NoException]

\* ContractRetriever._load_index, for the vector database as it is on disk
_load_index(db) ==
    IF ~db.exists
    THEN [status |-> "raised",
          exc |-> [type |-> "ValueError",
                   msg |-> "Vector database not found at rag/embeddings. Run indexer first!"]]
    ELSE [status |-> "returned", exc |-> NoException]

\* the default top_k of search_similar_clauses, and the one compare_clause asks for
default_top_k == 3
compare_top_k == 5

\* The top_k values searched with.
TopKs == {1, default_top_k, compare_top_k}

\* The clause_type arguments: None, empty, a category.
ClauseTypes == {None, <<"">>, <<"termination">>}

RetrieverInit ==
    /\ vector_db \in {NoDatabase}
                     \cup {[exists |-> TRUE, nodes |-> S] : S \in SUBSET IndexNodes}
    /\ retriever = "None"
    /\ search_args = NoArgs
    /\ source_nodes = <<>>
    /\ r_ret = NotCalled
    /\ NoAnalysis
    /\ response = NoText
    /\ gj_ret = NoCall

\* ContractRetriever(): the object exists only if _load_index returns.
Construct ==
    /\ retriever = "None"
    /\ r_ret.status = "idle"
    /\ LET loaded == _load_index(vector_db)
       IN  /\ retriever' = IF loaded.status = "returned" THEN "ContractRetriever"
                           ELSE "None"
           /\ r_ret' = [op |-> "__init__", status |-> loaded.status, value |-> <<>>,
                        exc |-> loaded.exc]
    /\ UNCHANGED <<analysis, response, gj_ret, vector_db, search_args, source_nodes>>

\* retriever.search_similar_clauses(query_clause, clause_type, top_k)
SearchSimilarClauses ==
    /\ retriever = "ContractRetriever"
    /\ \E clause_type \in ClauseTypes, top_k \in TopKs :
         \E reported \in index_query(vector_db.nodes, top_k) :
            /\ search_args' = [query |-> build_query("clause", clause_type),
                               top_k |-> top_k]
            /\ source_nodes' = reported
            /\ r_ret' = [op |-> "search_similar_clauses", status |-> "returned",
                         value |-> format_results(reported), exc |-> NoException]
    /\ UNCHANGED <<analysis, retriever, response, gj_ret, vector_db>>

\* retriever.compare_clause(user_clause, clause_type): one search with
\* top_k = 5, then the comparison.
CompareClause ==
    /\ retriever = "ContractRetriever"
    /\ \E clause_type \in ClauseTypes \ {None} :
         \E reported \in index_query(vector_db.nodes, compare_top_k) :
            /\ search_args' = [query |-> build_query("clause", clause_type),
                               top_k |-> compare_top_k]
            /\ source_nodes' = reported
            /\ r_ret' = [op |-> "compare_clause", status |-> "returned",
                         value |-> compare_clause_result(format_results(reported)),
                         exc |-> NoException]
    /\ UNCHANGED <<analysis, retriever, response, gj_ret, vector_db>>

RetrieverNext ==
    \/ Construct
    \/ SearchSimilarClauses
    \/ CompareClause

RetrieverSpec == RetrieverInit /\ [][RetrieverNext]_vars

(***************************************************************************)
(* Properties.                                                             *)
(***************************************************************************)
Analyzing == op \in {"analyze_clause", "analyze_multiple_clauses"}

RiskAndRecommendation == {"step5_risk_scoring", "step6_recommendations"}

SevenSteps ==
    {"step1_identification", "step2_legal_analysis", "step3_financial_impact",
     "step4_business_implications", "step5_risk_scoring", "step6_recommendations",
     "step7_negotiation"}

\* C1: analyze_clause never raises.  Whatever the generation client does
\* (answers, fails every attempt, answers with malformed text or with a
\* non-object) and whatever the retriever does, no exception leaves a task
\* that runs analyze_clause, every ended analysis has returned a result
\* object, and the call itself returns.
C1_AnalyzeNeverRaises ==
    Analyzing =>
        /\ ret.status # "raised"
        /\ \A k \in Tasks :
             /\ pc[k] # "raised"
             /\ exc[k] = NoException
             /\ pc[k] \in Terminal =>
                  /\ pc[k] \in {"done", "failed"}
                  /\ "analyzed_clause" \in DOMAIN result[k]
        /\ (op = "analyze_clause" /\ pc[1] \in Terminal) => ret.status = "returned"

\* C1 witness: a single analyze_clause call, with the retriever consulted,
\* whose generation failed on every attempt, has returned.
C1_Witness ==
    /\ op = "analyze_clause"
    /\ ret.status = "returned"
    /\ failure[1] = "generation"
    /\ retriever_calls[1] = 1
    /\ Len(attempts[1]) = MaxAttempts

\* C2: the object analyze_clause returns always has the keys
\* step5_risk_scoring and step6_recommendations.
C2_AlwaysRiskAndRecommendation ==
    \A k \in Tasks :
        (Analyzing /\ pc[k] \in {"done", "failed"}) =>
            RiskAndRecommendation \subseteq DOMAIN result[k]

\* C3: every successful analysis (one that is not the fallback) has all
\* seven step blocks.
C3_SuccessHasSevenSteps ==
    \A k \in Tasks :
        (Analyzing /\ pc[k] = "done") => SevenSteps \subseteq DOMAIN result[k]

\* C4: whenever generation or validation fails, analyze_clause returns
\* exactly the fallback shape, built around the input clause text and one
\* message that appears both in the error field and in the verdict; there
\* are no other keys.
C4_FallbackShape ==
    \A k \in Tasks :
        (Analyzing /\ failure[k] # "none") =>
            /\ pc[k] = "failed"
            /\ "error" \in DOMAIN result[k]
            /\ result[k] =
                 [clause_type |-> "error",
                  analyzed_clause |-> clauses[k].text,
                  error |-> result[k].error,
                  step5_risk_scoring |->
                     [risk_level |-> "unknown", risk_score |-> 0,
                      justification |-> "Analysis failed"],
                  step6_recommendations |->
                     [action |-> "manual_review", priority |-> "high",
                      suggested_changes |->
                         <<"Review this clause manually - automated analysis failed">>,
                      alternative_language |-> ""],
                  overall_verdict |->
                     "Automated analysis failed: " \o result[k].error
                     \o ". Manual review required."]

\* C4 witness: the last of three attempts timed out and the analysis ended
\* as a fallback with risk score 0.
C4_Witness ==
    /\ Analyzing
    /\ pc[1] = "failed"
    /\ failure[1] = "generation"
    /\ attempts[1] = <<"failed", "failed", "failed">>
    /\ caught[1].msg = "RetryError[<Future state=finished raised ReadTimeout>]"
    /\ result[1].clause_type = "error"
    /\ result[1].step5_risk_scoring.risk_score = 0

\* C5: the fallback's error field is "JSON parsing failed" when the
\* generated text could not be parsed even after fence stripping, and the
\* stringified exception otherwise: the RetryError of exhausted retries,
\* the ValueError of a non-object.
C5_ErrorReason ==
    \A k \in Tasks :
        (Analyzing /\ pc[k] = "failed") =>
            /\ failure[k] \in {"malformed", "generation", "validation"}
            /\ failure[k] = "malformed" => result[k].error = "JSON parsing failed"
            /\ failure[k] = "generation" =>
                 /\ caught[k].type = "RetryError"
                 /\ result[k].error = caught[k].msg
            /\ failure[k] = "validation" =>
                 /\ caught[k].type = "ValueError"
                 /\ result[k].error = caught[k].msg

\* C5 witness: in one batch, clause 1 failed on malformed output and clause
\* 2 on exhausted retries whose last attempt got an undecodable body.
C5_Witness ==
    /\ op = "analyze_multiple_clauses"
    /\ Len(clauses) = 2
    /\ pc[1] = "failed" /\ failure[1] = "malformed"
    /\ pc[2] = "failed" /\ failure[2] = "generation"
    /\ result[2].error = "RetryError[<Future state=finished raised JSONDecodeError>]"

\* C6: analyze_multiple_clauses on N clauses returns N results, result k
\* being the analysis task k returned, with clause k's text as its
\* analyzed_clause, whatever order the tasks ended in; and it returns as
\* soon as every task has ended.
C6_AnalyzeManyOrder ==
    op = "analyze_multiple_clauses" =>
        /\ ret.status = "returned" =>
             /\ DOMAIN ret.value = 1..Len(clauses)
             /\ \A k \in Tasks :
                  /\ pc[k] \in {"done", "failed"}
                  /\ ret.value[k] = result[k]
                  /\ ret.value[k].analyzed_clause = clauses[k].text
        /\ (\A k \in Tasks : pc[k] \in Terminal) => ret.status = "returned"

\* C6 witness: a batch of two different clauses has returned, and the first
\* clause's task was the last to end.
C6_Witness ==
    /\ op = "analyze_multiple_clauses"
    /\ ret.status = "returned"
    /\ Len(clauses) = 2
    /\ clauses[1].text # clauses[2].text
    /\ last_done = 1

\* C7: partial success of analyze_multiple_clauses.  The batch never
\* raises; in what it returns, a clause whose generation failed has the
\* fallback for that clause and a clause whose analysis went through has
\* its own stamped analysis; and after a clause has failed, the batch can
\* still take a step as long as some clause is unfinished.
C7_PartialSuccess ==
    op = "analyze_multiple_clauses" =>
        /\ ret.status # "raised"
        /\ ((\E i \in Tasks : pc[i] = "failed") /\ (\E j \in Tasks : pc[j] \notin Terminal))
              => ENABLED Next
        /\ ret.status = "returned" =>
             \A k \in Tasks :
                /\ failure[k] = "generation" =>
                     /\ ret.value[k].clause_type = "error"
                     /\ "error" \in DOMAIN ret.value[k]
                     /\ ret.value[k].analyzed_clause = clauses[k].text
                /\ failure[k] = "none" =>
                     /\ pc[k] = "done"
                     /\ "error" \notin DOMAIN ret.value[k]
                     /\ ret.value[k].clause_type # "error"
                     /\ ret.value[k].analyzed_clause = clauses[k].text
                     /\ ret.value[k].rag_context_used = (use_rag /\ retriever # "None")

\* C7 witness: the batch has returned with clause 1 failed in generation
\* and clause 2 analysed.
C7_Witness ==
    /\ op = "analyze_multiple_clauses"
    /\ ret.status = "returned"
    /\ Len(clauses) = 2
    /\ failure[1] = "generation"
    /\ failure[2] = "none"

\* C8: when every prompt succeeds, batch_generate returns one text per
\* prompt, text k being the content answered to the request that carried
\* prompt k, whatever order the requests completed in.
C8_BatchGenerateOrder ==
    (op = "batch_generate" /\ ret.status = "returned") =>
        /\ DOMAIN ret.value = 1..Len(prompts)
        /\ \A k \in Tasks :
             /\ pc[k] = "returned"
             /\ answered[k].prompt = prompts[k]
             /\ ret.value[k] = answered[k].text

\* C8 witness: two prompts answered with different texts, the first prompt
\* answered last.
C8_Witness ==
    /\ op = "batch_generate"
    /\ ret.status = "returned"
    /\ Len(prompts) = 2
    /\ answered[1].text # answered[2].text
    /\ last_done = 1

\* C9: batch_generate is all-or-nothing: once a prompt has failed after its
\* retries the call has failed with that error and hands back no texts,
\* also after every other prompt has succeeded.
C9_BatchGenerateAllOrNothing ==
    op = "batch_generate" =>
        /\ (\E k \in Tasks : pc[k] = "raised") =>
             /\ ret.status = "raised"
             /\ ret.value = <<>>
             /\ \E k \in Tasks : pc[k] = "raised" /\ ret.exc = exc[k]
        /\ ret.status = "returned" => \A k \in Tasks : pc[k] = "returned"

\* C9 witness: of two prompts the first failed after three attempts and the
\* second was answered.
C9_Witness ==
    /\ op = "batch_generate"
    /\ Len(prompts) = 2
    /\ pc[1] = "raised"
    /\ attempts[1] = <<"failed", "failed", "failed">>
    /\ pc[2] = "returned"

\* C10: one generate call makes at most 3 attempts; every attempt but the
\* last one made has failed (so none follows a success), and generate
\* returns the text of the attempt that succeeded.
C10_AtMostThreeAttempts ==
    \A k \in Tasks :
        /\ Len(attempts[k]) <= 3
        /\ \A i \in 1..(Len(attempts[k]) - 1) : attempts[k][i] = "failed"
        /\ pc[k] = "in_flight" <=>
             (Len(attempts[k]) > 0 /\ attempts[k][Len(attempts[k])] = "in_flight")
        /\ pc[k] = "sleeping" =>
             /\ attempts[k][Len(attempts[k])] = "failed"
             /\ Len(attempts[k]) < 3
        /\ pc[k] = "returned" =>
             /\ attempts[k][Len(attempts[k])] = "ok"
             /\ result[k] = answered[k].text
        /\ pc[k] = "validating" => attempts[k][Len(attempts[k])] = "ok"

\* C10 witness: a generate call that returned the text of its third attempt.
C10_Witness ==
    /\ op = "batch_generate"
    /\ pc[1] = "returned"
    /\ attempts[1] = <<"failed", "failed", "ok">>

\* C11: when all 3 attempts of a generate call have failed, generate raises
\* the client's generation failure (tenacity's RetryError around the last
\* attempt, never the attempt's own exception) to its caller and returns
\* no text: a batch_generate task ends raised with it, and in analyze_clause
\* it is what reaches the except clauses.
C11_ExhaustionRaisesGenerationError ==
    \A k \in Tasks :
        attempts[k] = <<"failed", "failed", "failed">> =>
            /\ op = "batch_generate" =>
                 /\ pc[k] = "raised"
                 /\ exc[k].type = "RetryError"
                 /\ exc[k] \notin AttemptExceptions
                 /\ \E e \in AttemptExceptions : exc[k] = RetryError(e)
                 /\ result[k] = NoResult
                 /\ answered[k] = NoAnswer
            /\ Analyzing =>
                 /\ failure[k] = "generation"
                 /\ caught[k].type = "RetryError"
                 /\ caught[k] \notin AttemptExceptions

\* C11 witness: a generate call whose three attempts failed, the last with
\* a refused connection, has raised RetryError.
C11_Witness ==
    /\ op = "batch_generate"
    /\ Len(prompts) = 1
    /\ attempts[1] = <<"failed", "failed", "failed">>
    /\ pc[1] = "raised"
    /\ exc[1] = RetryError([type |-> "ConnectError", msg |-> "All connection attempts failed"])
    /\ ret.status = "raised"

\* C14: retrieval is best-effort.  When the retriever's search raised, the
\* exception is swallowed (the task never ends raised), the context handed
\* to the prompt is the "retrieval unavailable" placeholder, the generation
\* client is still called, and the task ends done or failed as the
\* generation went: done after an answered attempt, failed only for one of
\* the generation's reasons, with an error that is not the search's.
C14_RetrievalBestEffort ==
    \A k \in Tasks :
        (Analyzing /\ search_raised[k]) =>
            /\ retriever_calls[k] = 1
            /\ pc[k] # "raised"
            /\ exc[k] = NoException
            /\ ret.status # "raised"
            /\ pc[k] = "building_prompt" =>
                 similar_clauses_text[k] = "RAG retrieval unavailable."
            /\ pc[k] \in {"in_flight", "sleeping"} =>
                 prompt[k] = "**CLAUSE TO ANALYZE:**\n" \o clauses[k].text
                             \o "\n\n**CLAUSE TYPE:** " \o clause_type_of(clauses[k])
                             \o "\n\n**CONTEXT FROM SIMILAR STANDARD CLAUSES:**\n"
                             \o "RAG retrieval unavailable."
            /\ pc[k] \notin {"retrieving", "building_prompt"} => Len(attempts[k]) >= 1
            /\ pc[k] = "done" =>
                 /\ attempts[k][Len(attempts[k])] = "ok"
                 /\ failure[k] = "none"
            /\ pc[k] = "failed" =>
                 /\ failure[k] \in {"generation", "malformed", "validation"}
                 /\ failure[k] = "generation" <=> attempts[k][Len(attempts[k])] = "failed"
                 /\ caught[k].msg # "index query failed"
                 /\ result[k].error # "index query failed"

\* C14 witness: a clause whose retriever search raised was analysed all the
\* same, from the first answer of the generation client.
C14_Witness ==
    /\ Analyzing
    /\ use_rag
    /\ search_raised[1]
    /\ pc[1] = "done"
    /\ attempts[1] = <<"ok">>
    /\ "step5_risk_scoring" \in DOMAIN result[1]

\* C15: a successful analysis is the generated object with analyzed_clause
\* set to the input clause text and rag_context_used set to (use_rag and a
\* retriever is configured), whatever the object carried under those keys
\* and however the retrieval went; every other key is as generated.
C15_Stamping ==
    \A k \in Tasks :
        (Analyzing /\ pc[k] = "done") =>
            /\ result[k].analyzed_clause = clauses[k].text
            /\ result[k].rag_context_used = (use_rag /\ retriever # "None")
            /\ \E g \in {FullAnalysis, FlatAnalysis} :
                 /\ DOMAIN result[k] = DOMAIN g \cup {"analyzed_clause", "rag_context_used"}
                 /\ \A key \in DOMAIN g \ {"analyzed_clause", "rag_context_used"} :
                      result[k][key] = g[key]

\* C15 witness: the search raised and the generated object carried its own
\* analyzed_clause and rag_context_used = TRUE; the result has the input
\* clause text, and rag_context_used TRUE because the flag was set and a
\* retriever was configured.
C15_Witness ==
    /\ Analyzing
    /\ pc[1] = "done"
    /\ search_raised[1]
    /\ "risk_level" \in DOMAIN result[1]
    /\ result[1].analyzed_clause = "c1"
    /\ result[1].rag_context_used = TRUE

\* The exponential 1 * 2^(n-1) kept inside the window 4..10.
BackoffWindow(n) ==
    IF 2 ^ (n - 1) < 4 THEN 4 ELSE IF 2 ^ (n - 1) > 10 THEN 10 ELSE 2 ^ (n - 1)

Parsed == gj_ret.status # "pending"

\* C12 as stated: generate_json returns the parsed object when the text
\* parses directly or after one fence-stripping pass; when both parses fail
\* it raises the malformed-output error (json.JSONDecodeError), returns no
\* object, and the error carries the raw generated text.
C12_MalformedCarriesRawText ==
    Parsed =>
        LET direct == json_loads(response)
            second == json_loads(recovered(response))
        IN  /\ direct.ok =>
                 gj_ret.status = "returned" /\ gj_ret.value = direct.value
            /\ (~direct.ok /\ second.ok) =>
                 gj_ret.status = "returned" /\ gj_ret.value = second.value
            /\ (~direct.ok /\ ~second.ok) =>
                 /\ gj_ret.status = "raised"
                 /\ gj_ret.value = NoParsed
                 /\ gj_ret.exc.type = "JSONDecodeError"
                 /\ gj_ret.exc.doc = response

\* C12 amended: as above, but the error raised is the one of the second
\* parse: the document it carries is the text left after the stripping
\* pass (surrounding whitespace and fence markers removed), and the raw
\* generated text is carried only by the error of the first parse, chained
\* to it as its context.
C12_MalformedCarriesStrippedText ==
    Parsed =>
        LET direct == json_loads(response)
            second == json_loads(recovered(response))
        IN  /\ direct.ok =>
                 gj_ret.status = "returned" /\ gj_ret.value = direct.value
            /\ (~direct.ok /\ second.ok) =>
                 gj_ret.status = "returned" /\ gj_ret.value = second.value
            /\ (~direct.ok /\ ~second.ok) =>
                 /\ gj_ret.status = "raised"
                 /\ gj_ret.value = NoParsed
                 /\ gj_ret.exc.type = "JSONDecodeError"
                 /\ gj_ret.exc.doc = recovered(response)
                 /\ gj_ret.exc.context.type = "JSONDecodeError"
                 /\ gj_ret.exc.context.doc = response
            /\ gj_ret.status = "returned" => gj_ret.exc = NoException

\* C12 witness: fenced junk was rejected by both parses; the error raised
\* carries the junk without its fence.
C12_Witness ==
    /\ response = <<Fence, Tag, NL, "junk", NL, Fence>>
    /\ gj_ret.status = "raised"
    /\ gj_ret.exc.doc = <<"junk">>
    /\ gj_ret.exc.doc # response

\* The paddings a fenced block may have between its markers and its content.
Padding == {<<>>, <<NL>>}

\* s wrapped in a json-tagged fenced-code block.
JsonFenced(s) ==
    {<<Fence, Tag>> \o a \o s \o b \o <<Fence>> : a \in Padding, b \in Padding}

\* s wrapped in a fenced-code block whose opening marker has no tag.
PlainFenced(s) ==
    {<<Fence>> \o a \o s \o b \o <<Fence>> : a \in Padding, b \in Padding}

\* The parts of the generated text that parse directly.
DirectParts ==
    {t \in {SubSeq(response, i, j) : i \in 1..Len(response), j \in 1..Len(response)} :
        json_loads(t).ok}

\* C13 as stated: for every s that parses directly, s wrapped in a
\* fenced-code block (tagged json or not) goes through the recovery path
\* and parses to the same object as s.
C13_FenceRoundTrip ==
    Parsed =>
        \A s \in DirectParts :
            response \in JsonFenced(s) \cup PlainFenced(s) =>
                /\ ~json_loads(response).ok
                /\ gj_ret.status = "returned"
                /\ gj_ret.value = json_loads(s).value

\* C13 amended: the round trip holds for the json-tagged fenced-code block
\* (the opening marker immediately followed by json).
C13_JsonFenceRoundTrip ==
    Parsed =>
        \A s \in DirectParts :
            response \in JsonFenced(s) =>
                /\ ~json_loads(response).ok
                /\ gj_ret.status = "returned"
                /\ gj_ret.value = json_loads(s).value

\* C13 witness: a list in a json-tagged fence came back as the list.
C13_Witness ==
    /\ response = <<Fence, Tag, NL, "[]", NL, Fence>>
    /\ gj_ret.status = "returned"
    /\ gj_ret.value = [type |-> "list", value |-> <<>>]

\* A search / a compare has returned.
Searched == r_ret.op = "search_similar_clauses" /\ r_ret.status = "returned"
Compared == r_ret.op = "compare_clause" /\ r_ret.status = "returned"

\* C16: search returns its candidates by non-increasing similarity score,
\* best match first, for every query, category and top_k: they are the
\* nodes the index reported, in the order it reported them, at most top_k.
C16_SearchOrder ==
    Searched =>
        LET found == r_ret.value
        IN  /\ Len(found) <= search_args.top_k
            /\ Len(found) = Len(source_nodes)
            /\ \A i \in 1..Len(found) :
                 /\ found[i].text = source_nodes[i].text
                 /\ found[i].score = source_nodes[i].score
            /\ \A i \in 1..Len(found) : \A j \in i..Len(found) :
                 found[i].score >= found[j].score
            /\ \A n \in vector_db.nodes :
                 (Len(found) > 0 /\ \A i \in 1..Len(found) : found[i].text # n.text)
                    => n.score <= found[Len(found)].score

\* C16 witness: a search with a category and top_k = 3 over an index of six
\* nodes returned three candidates of different similarity.
C16_Witness ==
    /\ Searched
    /\ Cardinality(vector_db.nodes) = 6
    /\ search_args = [query |-> "Clause Type: termination\nclause", top_k |-> 3]
    /\ Len(r_ret.value) = 3
    /\ r_ret.value[1].score > r_ret.value[3].score

\* C17: compare searches with top_k = 5; when the search returns nothing
\* it returns found_similar = FALSE with the message "No similar clauses
\* found in the database." and nothing else; otherwise found_similar is
\* TRUE, the candidates are the search's, and best_match is the first.
C17_Compare ==
    Compared =>
        /\ search_args.top_k = 5
        /\ Len(source_nodes) <= 5
        /\ source_nodes = <<>> =>
             r_ret.value = [found_similar |-> FALSE,
                            message |-> "No similar clauses found in the database."]
        /\ source_nodes # <<>> =>
             /\ r_ret.value.found_similar = TRUE
             /\ Len(r_ret.value.similar_clauses) = Len(source_nodes)
             /\ r_ret.value.best_match = r_ret.value.similar_clauses[1]
             /\ r_ret.value.best_match.text = source_nodes[1].text
             /\ \A i \in 1..Len(source_nodes) :
                  r_ret.value.best_match.score >= source_nodes[i].score

\* C17 witness: compare over a database that exists but holds no node.
C17_Witness ==
    /\ Compared
    /\ vector_db = [exists |-> TRUE, nodes |-> {}]
    /\ search_args.top_k = 5
    /\ r_ret.value.found_similar = FALSE

\* The positions of the reported nodes that carry a fairness rating.
Rated == {i \in 1..Len(source_nodes) : "fairness_score" \in DOMAIN source_nodes[i].metadata}

RECURSIVE RatingSum(_)
\* The sum of the ratings at the positions P.
RatingSum(P) ==
    IF P = {} THEN 0
    ELSE LET i == CHOOSE x \in P : TRUE
         IN  source_nodes[i].metadata.fairness_score + RatingSum(P \ {i})

\* C18: for a non-empty candidate list, compare's average fairness is the
\* mean of the ratings that are present (candidates without one are left
\* out of both the sum and the count), and exactly 5 when none is present.
C18_AverageFairness ==
    (Compared /\ source_nodes # <<>>) =>
        LET avg == r_ret.value.average_fairness_score
        IN  /\ avg.den > 0
            /\ Rated # {} => avg.num * Cardinality(Rated) = RatingSum(Rated) * avg.den
            /\ Rated = {} => avg = [num |-> 5, den |-> 1]

\* C18 witness: five candidates, three of them rated 6, 9 and 8: the
\* average is 23/3.
C18_Witness ==
    /\ Compared
    /\ Len(source_nodes) = 5
    /\ Cardinality(Rated) = 3
    /\ r_ret.value.average_fairness_score = [num |-> 23, den |-> 3]

\* C19: over a vector database that is missing, construction fails with
\* the retriever's unavailable-index error (a ValueError naming the missing
\* database), no retriever object exists afterwards, and no search or
\* compare ever runs; every search or compare ran on a constructed
\* retriever over an existing database.
C19_ConstructionFailsFast ==
    /\ ~vector_db.exists =>
         /\ retriever = "None"
         /\ r_ret.op \in {"", "__init__"}
         /\ r_ret.op = "__init__" =>
              /\ r_ret.status = "raised"
              /\ r_ret.exc.type = "ValueError"
              /\ r_ret.exc.msg =
                   "Vector database not found at rag/embeddings. Run indexer first!"
         /\ source_nodes = <<>>
         /\ ~ENABLED SearchSimilarClauses
         /\ ~ENABLED CompareClause
    /\ r_ret.op \in {"search_similar_clauses", "compare_clause"} =>
         vector_db.exists /\ retriever = "ContractRetriever"

\* C19 witness: construction over a missing database has raised.
C19_Witness ==
    /\ ~vector_db.exists
    /\ r_ret.op = "__init__"
    /\ r_ret.status = "raised"
    /\ retriever = "None"

(***************************************************************************)
(* The life cycle of one analyze_clause call.                              *)
(***************************************************************************)

\* the phases of an analyze_clause call as positions of the task
BuildingPromptPhase == {"retrieving", "building_prompt"}
AwaitingGenerationPhase == {"in_flight", "sleeping"}

\* the steps between positions an analyze_clause call may take
LifecycleSteps ==
    {<<"pending", "retrieving">>, <<"retrieving", "building_prompt">>,
     <<"building_prompt", "in_flight">>, <<"in_flight", "sleeping">>,
     <<"sleeping", "in_flight">>, <<"in_flight", "validating">>,
     <<"validating", "done">>, <<"in_flight", "failed">>,
     <<"validating", "failed">>}

\* C21: every step of an analyze_clause call goes along building-prompt ->
\* awaiting-generation -> validating -> done, or to failed.  done and failed
\* are terminal and are the only ends (a call never ends raised); failed is
\* entered only from awaiting-generation, for an exhausted generation or a
\* malformed answer, or from validating, for a parsed value that is not a
\* dict, and never from building-prompt: a failed retrieval moves on to the
\* prompt.
C21_Lifecycle ==
    [][Analyzing =>
         \A k \in Tasks :
            /\ pc[k] \in {"done", "failed"} =>
                 /\ pc'[k] = pc[k]
                 /\ result'[k] = result[k]
            /\ pc'[k] # pc[k] =>
                 /\ <<pc[k], pc'[k]>> \in LifecycleSteps
                 /\ pc[k] \in BuildingPromptPhase =>
                      pc'[k] \in BuildingPromptPhase \cup AwaitingGenerationPhase
                 /\ pc'[k] = "failed" =>
                      /\ pc[k] \in AwaitingGenerationPhase \cup {"validating"}
                      /\ pc[k] \in AwaitingGenerationPhase =>
                           failure'[k] \in {"generation", "malformed"}
                      /\ pc[k] = "validating" => failure'[k] = "validation"
                 /\ pc'[k] = "done" => failure'[k] = "none"]_vars

\* C21 witness: a call whose retriever search raised went on through the
\* generation and failed in validating.
C21_Witness ==
    /\ Analyzing
    /\ use_rag
    /\ search_raised[1]
    /\ pc[1] = "failed"
    /\ failure[1] = "validation"
    /\ attempts[1] = <<"failed", "ok">>

\* C22: analyze_clause searches the retriever at most once per call, and only
\* when use_rag is set and a retriever is configured; the one search is made
\* before the generation call (it is already made, and never repeated, when
\* the prompt is about to be built and no attempt has been issued), and it
\* asks for up to 3 candidates for the clause's text and category.  In every
\* other configuration the retriever is never called.
C22_RetrieverQueriedOnce ==
    Analyzing =>
        \A k \in Tasks :
            /\ Len(search_kwargs[k]) <= 1
            /\ retriever_calls[k] = Len(search_kwargs[k])
            /\ ~(use_rag /\ retriever = "ContractRetriever") => search_kwargs[k] = <<>>
            /\ pc[k] \in {"pending", "retrieving"} =>
                 /\ search_kwargs[k] = <<>>
                 /\ attempts[k] = <<>>
            /\ pc[k] = "building_prompt" => attempts[k] = <<>>
            /\ (use_rag /\ retriever = "ContractRetriever"
                  /\ pc[k] \notin {"pending", "retrieving"}) =>
                 /\ Len(search_kwargs[k]) = 1
                 /\ search_kwargs[k][1].top_k = 3
                 /\ search_kwargs[k][1].query_clause = clauses[k].text
                 /\ search_kwargs[k][1].clause_type =
                      (IF "type" \in DOMAIN clauses[k] THEN clauses[k].type ELSE "unknown")

\* C22 witness: two clauses analysed with retrieval; each has searched once,
\* the first went through all three attempts and the second is still
\* waiting for its answer.
C22_Witness ==
    /\ op = "analyze_multiple_clauses"
    /\ use_rag
    /\ retriever = "ContractRetriever"
    /\ Len(clauses) = 2
    /\ Len(attempts[1]) = 3
    /\ pc[1] \in {"done", "failed"}
    /\ pc[2] = "in_flight"
    /\ search_kwargs[1] = <<[query_clause |-> "c1", clause_type |-> "termination", top_k |-> 3]>>
    /\ search_kwargs[2] = <<[query_clause |-> "c2", clause_type |-> "unknown", top_k |-> 3]>>

\* the attempts task k has issued have all failed
AllFailed(k) == \A i \in 1..Len(attempts[k]) : attempts[k][i] = "failed"

\* the failure of task k's generate call has surfaced: it was raised to the
\* caller of batch_generate's generate, or reached analyze_clause's excepts
Surfaced(k) == exc[k] # NoException \/ caught[k] # NoException

\* C23: a per-request timeout is handled like any other failed attempt.
\* While fewer than 3 attempts are made it consumes the attempt it ended,
\* nothing surfaces, and the retry is scheduled (after the backoff the next
\* request can be issued); a generation failure surfaces only when the
\* third attempt has failed too, and the timeout itself is never what is
\* raised.
C23_TimeoutIsRetried ==
    \A k \in Tasks :
        /\ (pc[k] = "sleeping" /\ attempt_exc[k].type = "ReadTimeout") =>
             /\ Len(attempts[k]) = attempt_number[k]
             /\ attempt_number[k] < 3
             /\ AllFailed(k)
             /\ ~Surfaced(k)
             /\ result[k] = NoResult
             /\ delay[k] = 4
             /\ running = 0 =>
                  ENABLED (/\ WakeUp(k)
                           /\ attempt_number'[k] = attempt_number[k] + 1
                           /\ attempts'[k] = Append(attempts[k], "in_flight"))
        /\ (exc[k].type = "RetryError" \/ caught[k].type = "RetryError") =>
             attempts[k] = <<"failed", "failed", "failed">>
        /\ exc[k].type # "ReadTimeout" /\ caught[k].type # "ReadTimeout"
        /\ pc[k] # "sleeping" => attempt_exc[k] = NoException

\* C23 witness: the first two requests of a clause's generation timed out;
\* the second timeout is being slept on and nothing has surfaced.
C23_Witness ==
    /\ Analyzing
    /\ pc[1] = "sleeping"
    /\ attempt_exc[1].type = "ReadTimeout"
    /\ attempts[1] = <<"failed", "failed">>
    /\ ret.status = "pending"

\* C26: generate retries after any exception of an attempt, not transport
\* failures alone: an answer without ['message']['content'] (KeyError) and a
\* body that is not JSON (JSONDecodeError) consume the attempt and are slept
\* on and retried like the others, up to the limit of 3 attempts; whatever
\* the third attempt raised is wrapped in RetryError, so no attempt's own
\* exception ever leaves generate.
C26_AnyExceptionIsRetried ==
    \A k \in Tasks :
        /\ pc[k] = "sleeping" =>
             /\ attempt_exc[k] \in AttemptExceptions
             /\ attempt_number[k] \in 1..2
             /\ attempts[k][attempt_number[k]] = "failed"
             /\ ~Surfaced(k)
        /\ (pc[k] = "in_flight" /\ attempt_number[k] < 3 /\ running = 0
              /\ \A j \in Tasks : pc[j] # "pending") =>
             \A e \in AttemptExceptions :
                 ENABLED (/\ AttemptRaises(k, e)
                          /\ pc'[k] = "sleeping"
                          /\ attempt_exc'[k] = e)
        /\ exc[k] \notin AttemptExceptions
        /\ caught[k] \notin {e \in AttemptExceptions : e.type # "JSONDecodeError"}
        /\ (Analyzing /\ failure[k] = "generation") =>
             /\ caught[k].type = "RetryError"
             /\ Len(attempts[k]) = 3

\* C26 witness: an answer without message content at the first attempt and
\* an undecodable body at the second one are behind a call that is now
\* sleeping before its third attempt.
C26_Witness ==
    /\ op = "batch_generate"
    /\ pc[1] = "sleeping"
    /\ attempt_number[1] = 2
    /\ attempt_exc[1].type \in {"KeyError", "JSONDecodeError"}
    /\ attempts[1] = <<"failed", "failed">>

(***************************************************************************)
(* Suspension points of analyze_multiple_clauses.                          *)
(***************************************************************************)

\* some analysis other than task k's has not ended
OthersUnfinished(k) == \E j \in Tasks \ {k} : pc[j] \notin Terminal

\* an analysis other than task k's can take a step now
OthersCanRun(k) == \E j \in Tasks \ {k} : ENABLED TaskStep(j)

\* task k is inside its retriever search
SearchInProgress(k) ==
    pc[k] = "retrieving" /\ use_rag /\ retriever = "ContractRetriever"

\* C24 as stated: in analyze_multiple_clauses a task inside a generation
\* call or inside its retriever search is suspended, so that another
\* unfinished analysis can run, and a task anywhere else is not suspended.
C24_RetrievalAndGenerationSuspend ==
    op = "analyze_multiple_clauses" =>
        \A k \in Tasks :
            /\ (pc[k] \in AwaitingGenerationPhase \/ SearchInProgress(k)) =>
                 /\ running # k
                 /\ OthersUnfinished(k) => OthersCanRun(k)
            /\ pc[k] \in {"building_prompt", "validating"} => running = k

\* C24, amended: only the generation call suspends, at every point of every
\* run.  While task k waits for an answer or sleeps before a retry it does
\* not hold the event loop and another unfinished analysis can run; the
\* retriever search is an
\* ordinary call, so from its start to the posting of the first request
\* (retrieving, building the prompt) and again while validating, task k
\* holds the event loop and no other analysis can take a step.
C24_OnlyGenerationSuspends ==
    [](op = "analyze_multiple_clauses" =>
        \A k \in Tasks :
            /\ pc[k] \in AwaitingGenerationPhase =>
                 /\ running # k
                 /\ OthersUnfinished(k) => OthersCanRun(k)
            /\ pc[k] \in {"retrieving", "building_prompt", "validating"} =>
                 /\ running = k
                 /\ ~OthersCanRun(k)
                 /\ ENABLED TaskStep(k))

\* C24 witness: the first clause's request is in flight while the second
\* clause is inside its retriever search and holds the event loop.
C24_Witness ==
    /\ op = "analyze_multiple_clauses"
    /\ Len(clauses) = 2
    /\ pc[1] = "in_flight"
    /\ SearchInProgress(2)
    /\ running = 2
    /\ search_kwargs[2] = <<>>

\* the requests in flight
InFlight == {k \in Tasks : pc[k] = "in_flight"}

\* C25: analyze_multiple_clauses launches all its analyses at once, without
\* a cap.  Whatever the number N of clauses, the first requests of all N are
\* in flight together before the first answer or failure of any of them is
\* handled: from then on, and when the call has returned, the largest
\* number of requests seen in flight together is N.
C25_AllLaunchedAtOnce ==
    op = "analyze_multiple_clauses" =>
        /\ peak_in_flight <= Len(clauses)
        /\ Cardinality(InFlight) <= peak_in_flight
        /\ (\A k \in Tasks : attempts[k] = <<"in_flight">>) =>
             /\ Cardinality(InFlight) = Len(clauses)
             /\ peak_in_flight = Len(clauses)
        /\ (\E k \in Tasks : attempts[k] \notin {<<>>, <<"in_flight">>}) =>
             peak_in_flight = Len(clauses)
        /\ ret.status # "pending" => peak_in_flight = Len(clauses)

\* C25 witness: the longest list of clauses, the first request of every
\* clause in flight.
C25_Witness ==
    /\ op = "analyze_multiple_clauses"
    /\ Len(clauses) = MaxClauses
    /\ Cardinality(InFlight) = MaxClauses
    /\ peak_in_flight = MaxClauses
    /\ \A k \in Tasks : attempts[k] = <<"in_flight">>
    /\ running = 0

\* the number of requests issued so far for tasks 1..n
RECURSIVE RequestsUpTo(_)
RequestsUpTo(n) == IF n = 0 THEN 0 ELSE Len(attempts[n]) + RequestsUpTo(n - 1)

\* C27: generate_json calls generate once and never asks again.  An answer
\* is the last request of its analysis: when it cannot be parsed, or is not
\* a dict, the analysis ends failed on that very step with no request in
\* flight and takes no further step.  So one analysis issues at most 3
\* requests and analyze_multiple_clauses on N clauses at most 3N.
C27_RequestBudget ==
    Analyzing =>
        /\ \A k \in Tasks :
             /\ Len(attempts[k]) <= 3
             /\ \A i \in 1..Len(attempts[k]) :
                    attempts[k][i] = "ok" => i = Len(attempts[k])
             /\ failure[k] \in {"malformed", "validation"} =>
                  /\ pc[k] = "failed"
                  /\ attempts[k][Len(attempts[k])] = "ok"
             /\ pc[k] \in {"validating", "done", "failed"} =>
                  /\ \A i \in 1..Len(attempts[k]) : attempts[k][i] # "in_flight"
                  /\ attempt_number[k] = 0
             /\ pc[k] \in {"done", "failed"} => ~ENABLED TaskStep(k)
        /\ RequestsUpTo(N) <= 3 * N

\* C27 witness: two clauses, three requests each; the first clause's third
\* request was answered with text that is not JSON and the analysis failed
\* without asking again.
C27_Witness ==
    /\ op = "analyze_multiple_clauses"
    /\ Len(clauses) = 2
    /\ attempts[1] = <<"failed", "failed", "ok">>
    /\ failure[1] = "malformed"
    /\ Len(attempts[2]) = 3
    /\ RequestsUpTo(2) = 6
    /\ ret.status = "returned"

\* C28: batch_generate fails at once and leaves the other calls alone.  As
\* soon as one prompt's generate has raised, batch_generate has raised that
\* exception to its caller, whether or not the other prompts have ended.
\* The other generate calls are neither cancelled nor waited for: after the
\* failure was reported a request still in flight can still be answered or
\* fail, and a call sleeping on a failed attempt still issues its next
\* request.
C28_FailsAtOnceWithoutCancelling ==
    op = "batch_generate" =>
        /\ (\E k \in Tasks : pc[k] = "raised") => ret.status = "raised"
        /\ ret.status = "raised" =>
             /\ \E k \in Tasks : pc[k] = "raised" /\ ret.exc = exc[k]
             /\ running = 0
             /\ \A j \in Tasks :
                  /\ pc[j] \in {"in_flight", "sleeping", "returned", "raised"}
                  /\ pc[j] = "in_flight" =>
                       /\ ENABLED (AttemptSucceeds(j) /\ pc'[j] = "returned" /\ ret' = ret)
                       /\ ENABLED (AttemptFails(j) /\ ret' = ret)
                  /\ pc[j] = "sleeping" =>
                       ENABLED (/\ WakeUp(j)
                                /\ attempts'[j] = Append(attempts[j], "in_flight")
                                /\ ret' = ret)

\* C28 witness: the first prompt has failed three times and batch_generate
\* has raised, while the second prompt's call sleeps before its retry.
C28_Witness ==
    /\ op = "batch_generate"
    /\ Len(prompts) = 2
    /\ pc[1] = "raised"
    /\ ret.status = "raised"
    /\ ret.exc = exc[1]
    /\ pc[2] = "sleeping"
    /\ attempts[2] = <<"failed">>

\* generate_json raised json.JSONDecodeError for the text `doc`
Malformed(doc) ==
    /\ gj_ret.status = "raised"
    /\ gj_ret.value = NoParsed
    /\ gj_ret.exc.type = "JSONDecodeError"
    /\ gj_ret.exc.doc = doc

\* generate_json returned what s parses to
RecoveredAs(s) ==
    /\ ~json_loads(response).ok
    /\ gj_ret.status = "returned"
    /\ gj_ret.value = json_loads(s).value

\* C29: the recovery pass removes the leading marker only when the trimmed
\* text starts with the json-tagged marker, and the trailing marker whether
\* or not a leading one was found.  For every s that parses directly: s
\* followed only by a trailing fence is recovered, and so is s behind a
\* json-tagged opening marker that is never closed; s in a fence whose
\* opening marker has no json tag is not recovered and is reported as
\* malformed, the text rejected being the one with the trailing marker
\* gone and the opening one still there; and a json-tagged fence that
\* is not at the start of the trimmed text is left in place.
C29_FenceRemoval ==
    Parsed =>
        \A s \in DirectParts : \A a \in Padding, b \in Padding :
            /\ response = a \o s \o b \o <<Fence>> => RecoveredAs(s)
            /\ response = a \o <<Fence, Tag>> \o b \o s => RecoveredAs(s)
            /\ response = <<Fence>> \o a \o s \o b \o <<Fence>> =>
                 Malformed(strip(<<Fence>> \o a \o s \o b))
            /\ response = <<"junk", Fence, Tag>> \o s \o b \o <<Fence>> =>
                 Malformed(strip(<<"junk", Fence, Tag>> \o s \o b))

\* C29 witness: a list followed only by a closing fence came back as the
\* list.
C29_Witness ==
    /\ response = <<"[]", NL, Fence>>
    /\ gj_ret.status = "returned"
    /\ gj_ret.value = [type |-> "list", value |-> <<>>]

\* C30: with the event loop running, every request answered or failed in
\* the end and every retriever search returning or raising, every
\* analyze_clause call ends done or failed and analyze_clause /
\* analyze_multiple_clauses returns -- in every run, those in which every
\* attempt of every clause fails included, since a clause has at most 3
\* attempts.
C30_Termination ==
    Analyzing =>
        <>(/\ \A k \in Tasks : pc[k] \in {"done", "failed"}
           /\ ret.status = "returned"
           /\ running = 0)

\* C30 witness: every attempt of every clause has failed, after a retriever
\* search that raised, and analyze_multiple_clauses has returned.
C30_Witness ==
    /\ op = "analyze_multiple_clauses"
    /\ Len(clauses) = MaxClauses
    /\ \A k \in Tasks :
         /\ search_raised[k]
         /\ attempts[k] = <<"failed", "failed", "failed">>
         /\ pc[k] = "failed"
    /\ ret.status = "returned"

====
